---- MODULE Spec2Model ----
(***************************************************************************)
(* A model of the raycaster: the shapes' ray intersection (shape.rs), the  *)
(* surfaces' sampling (color.rs), Tile::new and Map::ray_cast (map.rs) and *)
(* the Camera and the Renderer (raycaster.rs).                             *)
(*                                                                         *)
(* The program computes in f64.  The model computes in exact extended      *)
(* rationals <<n, d>> (d >= 0, lowest terms), with <<1, 0>> = +inf,        *)
(* <<-1, 0>> = -inf and <<0, 0>> = NaN, so that a division by zero and the *)
(* comparisons that follow it behave as IEEE-754 makes them behave.        *)
(* Rounding of the last binary digit is not modelled.                      *)
(***************************************************************************)
EXTENDS Integers, Sequences, FiniteSets, TLC

----------------------------------------------------------------------------
(* Extended rational arithmetic (the f64 operations of the program).       *)

Abs(i) == IF i < 0 THEN -i ELSE i

Sgn(i) == IF i < 0 THEN -1 ELSE IF i > 0 THEN 1 ELSE 0

RECURSIVE GCD(_, _)
GCD(a, b) == IF b = 0 THEN a ELSE GCD(b, a % b)

Rat(n, d) ==
    IF d = 0 THEN <<Sgn(n), 0>>
    ELSE LET g == GCD(Abs(n), Abs(d))
             s == IF d < 0 THEN -1 ELSE 1
         IN  <<(s * n) \div g, (s * d) \div g>>

I(i) == <<i, 1>>

NaN == <<0, 0>>

PosInf == <<1, 0>>

IsNaN(a) == a = NaN

IsFinite(a) == a[2] # 0

RNeg(a) == <<-a[1], a[2]>>

RAdd(a, b) ==
    IF a[2] = 0 /\ b[2] = 0
    THEN (IF a[1] = b[1] THEN a ELSE NaN)
    ELSE Rat(a[1] * b[2] + b[1] * a[2], a[2] * b[2])

RSub(a, b) == RAdd(a, RNeg(b))

RMul(a, b) == Rat(a[1] * b[1], a[2] * b[2])

RDiv(a, b) ==
    LET sb == IF b[1] < 0 THEN -1 ELSE 1
    IN  Rat(a[1] * b[2] * sb, a[2] * Abs(b[1]))

RAbs(a) == <<Abs(a[1]), a[2]>>

RLt(a, b) ==
    /\ ~IsNaN(a)
    /\ ~IsNaN(b)
    /\ IF a[2] = 0 /\ b[2] = 0 THEN a[1] < b[1] ELSE a[1] * b[2] < b[1] * a[2]

RLe(a, b) ==
    /\ ~IsNaN(a)
    /\ ~IsNaN(b)
    /\ IF a[2] = 0 /\ b[2] = 0 THEN a[1] <= b[1] ELSE a[1] * b[2] <= b[1] * a[2]

REq(a, b) == ~IsNaN(a) /\ ~IsNaN(b) /\ a = b

\* f64 -> integer, toward zero (the finite case of an `as` cast).
RTrunc(a) == IF a[1] >= 0 THEN a[1] \div a[2] ELSE -((-a[1]) \div a[2])

Vec(x, y) == [x |-> x, y |-> y]

VAdd(u, v) == Vec(RAdd(u.x, v.x), RAdd(u.y, v.y))

VSub(u, v) == Vec(RSub(u.x, v.x), RSub(u.y, v.y))

VScale(u, k) == Vec(RMul(u.x, k), RMul(u.y, k))

VDot(u, v) == RAdd(RMul(u.x, v.x), RMul(u.y, v.y))

\* floor(sqrt(n)) of a natural number: the r in lo..hi with r * r <= n < (r + 1)^2.
RECURSIVE ISqrtIn(_, _, _)
ISqrtIn(n, lo, hi) ==
    IF lo >= hi THEN lo
    ELSE LET mid == (lo + hi + 1) \div 2
         IN  IF mid * mid <= n THEN ISqrtIn(n, mid, hi) ELSE ISqrtIn(n, lo, mid - 1)

ISqrt(n) == ISqrtIn(n, 0, IF n < 46340 THEN n ELSE 46340)

\* f64::sqrt, to 1/SqrtScale.
SqrtScale == 64

RSqrt(a) ==
    IF IsNaN(a) \/ a[1] < 0 THEN NaN
    ELSE IF a[2] = 0 THEN PosInf
    ELSE Rat(ISqrt((a[1] * SqrtScale * SqrtScale) \div a[2]), SqrtScale)

----------------------------------------------------------------------------
(* shape.rs                                                                *)

Eps == <<1, 1000>>

NoHit == [hit |-> FALSE, length |-> NaN, x |-> NaN, side |-> 0]

SomeHit(len, u, side) == [hit |-> TRUE, length |-> len, x |-> u, side |-> side]

\* A shape is [kind, a, b]: a and b are min and max (AxisAlignedBox), pos and
\* (radius, 0) (Circle), start and end (Line); unused for Void and Box.
ZeroVec == Vec(I(0), I(0))

OneVec == Vec(I(1), I(1))

ShapeVoid == [kind |-> "Void", a |-> ZeroVec, b |-> ZeroVec]

ShapeBox == [kind |-> "Box", a |-> ZeroVec, b |-> OneVec]

ShapeAAB(min, max) == [kind |-> "AxisAlignedBox", a |-> min, b |-> max]

ShapeCircle(pos, radius) == [kind |-> "Circle", a |-> pos, b |-> Vec(radius, I(0))]

ShapeLine(start, end) == [kind |-> "Line", a |-> start, b |-> end]

AABYFaceSwapped(min, max, pos, dir) ==
    LET y    == IF RLt(I(0), dir.y) THEN min.y ELSE max.y
        side == IF RLt(I(0), dir.y) THEN 3 ELSE 2
        a    == RDiv(RSub(y, pos.y), dir.y)
        x    == RAdd(RMul(a, dir.x), pos.x)
    IN  IF RLe(min.x, x) /\ RLe(x, max.x) /\ RLe(I(0), RAdd(a, Eps))
        THEN SomeHit(a, RDiv(RSub(x, min.x), RSub(max.x, min.x)), side)
        ELSE NoHit

AABYFace(min, max, pos, dir) ==
    LET y    == IF RLt(I(0), dir.y) THEN min.y ELSE max.y
        side == IF RLt(I(0), dir.y) THEN 2 ELSE 3
        a    == RDiv(RSub(y, pos.y), dir.y)
        x    == RAdd(RMul(a, dir.x), pos.x)
    IN  IF RLe(min.x, x) /\ RLe(x, max.x) /\ RLe(I(0), RAdd(a, Eps))
        THEN SomeHit(a, RDiv(RSub(x, min.x), RSub(max.x, min.x)), side)
        ELSE NoHit

AABXFaceOnly(min, max, pos, dir) ==
    LET x    == IF RLt(I(0), dir.x) THEN min.x ELSE max.x
        side == IF RLt(I(0), dir.x) THEN 0 ELSE 1
        a    == RDiv(RSub(x, pos.x), dir.x)
        y    == RAdd(RMul(a, dir.y), pos.y)
    IN  IF RLe(min.y, y) /\ RLe(y, max.y) /\ RLe(I(0), RAdd(a, Eps))
        THEN SomeHit(a, RDiv(RSub(y, min.y), RSub(max.y, min.y)), side)
        ELSE NoHit

AABRayCast(min, max, pos, dir) ==
    LET x    == IF RLt(I(0), dir.x) THEN min.x ELSE max.x
        side == IF RLt(I(0), dir.x) THEN 0 ELSE 1
        a    == RDiv(RSub(x, pos.x), dir.x)
        y    == RAdd(RMul(a, dir.y), pos.y)
    IN  IF RLe(min.y, y) /\ RLe(y, max.y) /\ RLe(I(0), RAdd(a, Eps))
        THEN SomeHit(a, RDiv(RSub(y, min.y), RSub(max.y, min.y)), side)
        ELSE AABYFace(min, max, pos, dir)

\* angle / (2 PI) of the unit vector p, with acos taken piecewise linear
\* (acos(x) ~ (PI / 2) (1 - x)): a turn fraction in [0, 1].
TurnFraction(p) ==
    LET t == RDiv(RSub(I(1), p.x), I(4))
    IN  IF RLt(p.y, I(0)) THEN RSub(I(1), t) ELSE t

CircleRayCast(cpos, radius, pos, dir) ==
    LET a  == RAdd(RMul(dir.x, dir.x), RMul(dir.y, dir.y))
        b  == RMul(I(2), RAdd(RMul(dir.x, RSub(pos.x, cpos.x)),
                              RMul(dir.y, RSub(pos.y, cpos.y))))
        k  == VSub(pos, cpos)
        c  == RSub(RAdd(RMul(k.x, k.x), RMul(k.y, k.y)), RMul(radius, radius))
        in_sqrt == RSub(RMul(b, b), RMul(I(4), RMul(a, c)))
        sqrt == RSqrt(in_sqrt)
        l1 == RDiv(RSub(RNeg(b), sqrt), RMul(I(2), a))
        l2 == RDiv(RAdd(RNeg(b), sqrt), RMul(I(2), a))
        l  == IF RLe(I(0), l1) THEN l1 ELSE l2
        p  == Vec(RDiv(RSub(RAdd(pos.x, RMul(dir.x, l)), cpos.x), radius),
                  RDiv(RSub(RAdd(pos.y, RMul(dir.y, l)), cpos.y), radius))
    IN  IF RLt(I(0), in_sqrt)
        THEN IF RLe(I(0), l1) \/ RLe(I(0), l2)
             THEN SomeHit(l, TurnFraction(p), 0)
             ELSE NoHit
        ELSE NoHit

LineSidesFromOne(start, end, pos, dir) ==
    LET x1 == pos.x
        y1 == pos.y
        x2 == RAdd(pos.x, dir.x)
        y2 == RAdd(pos.y, dir.y)
        x3 == start.x
        y3 == start.y
        x4 == end.x
        y4 == end.y
        div == RDiv(I(1), RSub(RMul(RSub(x1, x2), RSub(y3, y4)),
                               RMul(RSub(y1, y2), RSub(x3, x4))))
        t  == RMul(div, RSub(RMul(RSub(x1, x3), RSub(y3, y4)),
                             RMul(RSub(y1, y3), RSub(x3, x4))))
        u  == RMul(div, RSub(RMul(RSub(x1, x3), RSub(y1, y2)),
                             RMul(RSub(y1, y3), RSub(x1, x2))))
        side == IF RLt(I(0), VDot(VSub(end, start), dir)) THEN 1 ELSE 2
    IN  IF RLt(RAdd(t, Eps), I(0)) \/ RLt(u, I(0)) \/ RLt(I(1), u)
        THEN NoHit
        ELSE SomeHit(t, u, side)

LineRayCast(start, end, pos, dir) ==
    LET x1 == pos.x
        y1 == pos.y
        x2 == RAdd(pos.x, dir.x)
        y2 == RAdd(pos.y, dir.y)
        x3 == start.x
        y3 == start.y
        x4 == end.x
        y4 == end.y
        div == RDiv(I(1), RSub(RMul(RSub(x1, x2), RSub(y3, y4)),
                               RMul(RSub(y1, y2), RSub(x3, x4))))
        t  == RMul(div, RSub(RMul(RSub(x1, x3), RSub(y3, y4)),
                             RMul(RSub(y1, y3), RSub(x3, x4))))
        u  == RMul(div, RSub(RMul(RSub(x1, x3), RSub(y1, y2)),
                             RMul(RSub(y1, y3), RSub(x1, x2))))
        side == IF RLt(I(0), VDot(VSub(end, start), dir)) THEN 0 ELSE 1
    IN  IF RLt(RAdd(t, Eps), I(0)) \/ RLt(u, I(0)) \/ RLt(I(1), u)
        THEN NoHit
        ELSE SomeHit(t, u, side)

ShapeVoidAsBox(shape, pos, dir) ==
    CASE shape.kind \in {"Void", "Box"} -> AABRayCast(ZeroVec, OneVec, pos, dir)
      [] shape.kind = "AxisAlignedBox" -> AABRayCast(shape.a, shape.b, pos, dir)
      [] shape.kind = "Circle" -> CircleRayCast(shape.a, shape.b.x, pos, dir)
      [] shape.kind = "Line" -> LineRayCast(shape.a, shape.b, pos, dir)

ShapeRayCast(shape, pos, dir) ==
    CASE shape.kind = "Void" -> NoHit
      [] shape.kind = "Box" -> AABRayCast(ZeroVec, OneVec, pos, dir)
      [] shape.kind = "AxisAlignedBox" -> AABRayCast(shape.a, shape.b, pos, dir)
      [] shape.kind = "Circle" -> CircleRayCast(shape.a, shape.b.x, pos, dir)
      [] shape.kind = "Line" -> LineRayCast(shape.a, shape.b, pos, dir)

\* Shape::sides: the number of side surfaces of a shape.
Sides(shape) ==
    CASE shape.kind = "Void" -> 0
      [] shape.kind = "Box" -> 4
      [] shape.kind = "AxisAlignedBox" -> 4
      [] shape.kind = "Circle" -> 1
      [] shape.kind = "Line" -> 2

----------------------------------------------------------------------------
(* color.rs                                                                *)

ColorSolid(r, g, b, a) == [kind |-> "Solid", rgba |-> <<r, g, b, a>>]

ColorTest == [kind |-> "Test", rgba |-> <<I(0), I(0), I(0), I(1)>>]

ColorTest2 == [kind |-> "Test2", rgba |-> <<I(1), I(1), I(1), I(1)>>]

SampleOpaque(color, p) ==
    CASE color.kind = "Solid" ->
            <<color.rgba[1], color.rgba[2], color.rgba[3], I(1)>>
      [] color.kind = "Test" -> <<p.x, p.y, I(0), I(1)>>
      [] color.kind = "Test2" -> <<I(1), I(1), I(1), I(1)>>

Sample(color, p) ==
    CASE color.kind = "Solid" -> color.rgba
      [] color.kind = "Test" -> <<p.x, p.y, I(0), I(1)>>
      [] color.kind = "Test2" ->
            IF /\ RLt(Rat(2, 10), p.x) /\ RLt(p.x, Rat(8, 10))
               /\ RLt(Rat(2, 10), p.y) /\ RLt(p.y, Rat(8, 10))
            THEN <<Rat(1, 2), Rat(1, 2), I(1), Rat(3, 10)>>
            ELSE <<I(1), I(1), I(1), I(1)>>

----------------------------------------------------------------------------
(* map.rs: Tile and Map; main.rs: the tiles of the program                 *)

Half == Rat(1, 2)

NumColors == 4

\* Tile::new: [ok |-> FALSE] stands for the panic "Wrong number of colors".
TileNewPadding(shape, colors, floor_color, floor_height, ceiling_color, ceiling_height) ==
    [ok   |-> Len(colors) <= NumColors,
     tile |-> [shape          |-> shape,
               colors         |-> [i \in 1..NumColors |->
                                     IF i <= Len(colors) THEN colors[i] ELSE ColorTest],
               floor_color    |-> floor_color,
               floor_height   |-> floor_height,
               ceiling_color  |-> ceiling_color,
               ceiling_height |-> ceiling_height]]

TileNew(shape, colors, floor_color, floor_height, ceiling_color, ceiling_height) ==
    [ok   |-> Len(colors) = Sides(shape),
     tile |-> [shape          |-> shape,
               colors         |-> [i \in 1..NumColors |->
                                     IF i <= Len(colors) THEN colors[i] ELSE ColorTest],
               floor_color    |-> floor_color,
               floor_height   |-> floor_height,
               ceiling_color  |-> ceiling_color,
               ceiling_height |-> ceiling_height]]

\* The tile Map::new fills the map with: Void, the floor at 0 and the ceiling
\* at wall_height.
DefaultTile(wall_height) ==
    TileNew(ShapeVoid, <<>>, ColorTest, I(0), ColorTest, wall_height).tile

WallBox ==
    TileNew(ShapeBox, <<ColorTest2, ColorTest, ColorTest, ColorTest>>,
            ColorTest, I(0), ColorTest, I(0)).tile

WallCircle ==
    TileNew(ShapeCircle(Vec(Half, Half), Half), <<ColorTest2>>,
            ColorTest, I(0), ColorTest, I(0)).tile

WallAAB ==
    TileNew(ShapeAAB(Vec(Rat(2, 10), Rat(2, 10)), Vec(Rat(3, 10), Rat(8, 10))),
            <<ColorTest, ColorSolid(I(1), I(1), I(1), I(0)), ColorTest, ColorTest>>,
            ColorTest, I(0), ColorTest, I(0)).tile

WallLine ==
    TileNew(ShapeLine(ZeroVec, OneVec), <<ColorTest2, ColorTest>>,
            ColorTest, I(0), ColorTest, I(0)).tile

FloorVoid ==
    TileNew(ShapeVoid, <<>>, ColorTest, Rat(3, 10), ColorTest, Rat(-2, 10)).tile

\* The tiles are held by name: the map's cells hold names, and TileValue gives
\* the Tile a name stands for.
TileNames == {"Default", "WallBox", "WallCircle", "WallAAB", "WallLine", "FloorVoid"}

TileValue(name, wall_height) ==
    CASE name = "Default" -> DefaultTile(wall_height)
      [] name = "WallBox" -> WallBox
      [] name = "WallCircle" -> WallCircle
      [] name = "WallAAB" -> WallAAB
      [] name = "WallLine" -> WallLine
      [] name = "FloorVoid" -> FloorVoid

\* Map::new.  tiles[y * width + x] is the tile of cell (x, y).
MapNew(w, h, wall_height) ==
    [width  |-> w,
     height |-> h,
     tiles  |-> [i \in 0..(w * h - 1) |-> "Default"],
     wall_height |-> wall_height]

SetTileUnchecked(m, x, y, tile) ==
    IF y >= m.height
    THEN [ok |-> FALSE, map |-> m]
    ELSE [ok |-> TRUE, map |-> [m EXCEPT !.tiles[y * m.width + x] = tile]]

\* Map::set_tile: [ok |-> FALSE] stands for the panic on x or y out of range.
SetTile(m, x, y, tile) ==
    IF x >= m.width \/ y >= m.height
    THEN [ok |-> FALSE, map |-> m]
    ELSE [ok |-> TRUE, map |-> [m EXCEPT !.tiles[y * m.width + x] = tile]]

InGrid(m, x, y) == ~(x < 0 \/ x >= m.width) /\ ~(y < 0 \/ y >= m.height)

GetTileWrapping(m, x, y) ==
    IF x < 0 \/ y < 0
    THEN [some |-> FALSE, tile |-> DefaultTile(m.wall_height)]
    ELSE [some |-> TRUE,
          tile |-> TileValue(m.tiles[(y * m.width + x) % (m.width * m.height)],
                             m.wall_height)]

GetTileTransposed(m, x, y) ==
    IF InGrid(m, x, y)
    THEN [some |-> TRUE, tile |-> TileValue(m.tiles[x * m.height + y], m.wall_height)]
    ELSE [some |-> FALSE, tile |-> DefaultTile(m.wall_height)]

\* Map::get_tile: [some |-> FALSE] is None.
GetTile(m, x, y) ==
    IF InGrid(m, x, y)
    THEN [some |-> TRUE, tile |-> TileValue(m.tiles[y * m.width + x], m.wall_height)]
    ELSE [some |-> FALSE, tile |-> DefaultTile(m.wall_height)]

----------------------------------------------------------------------------
(* map.rs: Map::ray_cast                                                   *)

IVec(v) == Vec(I(v.x), I(v.y))

\* pos.cast(): f64 -> i32 truncates toward zero.
CastI32(p) == [x |-> RTrunc(p.x), y |-> RTrunc(p.y)]

DeltaDist(d) == Vec(RDiv(I(1), RAbs(d.x)), RDiv(I(1), RAbs(d.y)))

StepOf(d) == [x |-> IF RLt(d.x, I(0)) THEN -1 ELSE 1,
              y |-> IF RLt(d.y, I(0)) THEN -1 ELSE 1]

InitSideDist(p, d) ==
    LET mp    == CastI32(p)
        delta == DeltaDist(d)
    IN  Vec(IF RLt(d.x, I(0))
            THEN RMul(RSub(p.x, I(mp.x)), delta.x)
            ELSE RMul(RSub(RAdd(I(mp.x), I(1)), p.x), delta.x),
            IF RLt(d.y, I(0))
            THEN RMul(RSub(p.y, I(mp.y)), delta.y)
            ELSE RMul(RSub(RAdd(I(mp.y), I(1)), p.y), delta.y))

WallHit(length, x, color) ==
    [kind |-> "WallHit", length |-> length, x |-> x, color |-> color]

FloorHit(pos1, pos2, dist1, dist2, tile) ==
    [kind |-> "FloorHit", pos1 |-> pos1, pos2 |-> pos2,
     dist1 |-> dist1, dist2 |-> dist2,
     floor_color |-> tile.floor_color, floor_height |-> tile.floor_height,
     ceiling_color |-> tile.ceiling_color, ceiling_height |-> tile.ceiling_height]

\* The test of the origin's own cell, before the loop: whether the cell has a
\* tile, whether its shape is struck, and the WallHit handed to the callback.
OriginCell(m, p, d) ==
    LET mp   == CastI32(p)
        t    == GetTile(m, mp.x, mp.y)
        info == ShapeRayCast(t.tile.shape, VSub(p, IVec(mp)), d)
    IN  [some |-> t.some,
         wall |-> t.some /\ info.hit,
         hit  |-> WallHit(info.length, info.x, t.tile.colors[info.side + 1]),
         cell |-> mp,
         shape |-> t.tile.shape.kind]

StepsXOnTie(sd) == RLe(sd.x, sd.y)

\* The x axis steps when side_dist.x < side_dist.y, the y axis otherwise.
StepsX(sd) == RLt(sd.x, sd.y)

\* Lines 148-164: the test of the cell stepped into, at tile_pos on its edge;
\* side is 0 when the x axis stepped and 1 when the y axis did.
PassWall(m, d, mp, sd, tile_pos, side) ==
    LET delta == DeltaDist(d)
        t     == GetTile(m, mp.x, mp.y)
        info  == ShapeRayCast(t.tile.shape, VSub(tile_pos, IVec(mp)), d)
        perp_wall_dist == IF side = 0 THEN RSub(sd.x, delta.x) ELSE RSub(sd.y, delta.y)
    IN  [some  |-> t.some /\ info.hit,
         hit   |-> WallHit(RAdd(info.length, perp_wall_dist), info.x,
                           t.tile.colors[info.side + 1]),
         cell  |-> mp,
         shape |-> t.tile.shape.kind]

\* One pass of the loop: the step, the FloorHit of the cell just left and the
\* WallHit of the cell stepped into.
LoopPass(m, p, d, mp, sd, lpos, ldist) ==
    LET delta    == DeltaDist(d)
        step     == StepOf(d)
        sx       == StepsX(sd)
        dist     == IF sx THEN sd.x ELSE sd.y
        tile_pos == VAdd(p, VScale(d, dist))
        sd2      == IF sx THEN Vec(RAdd(sd.x, delta.x), sd.y)
                          ELSE Vec(sd.x, RAdd(sd.y, delta.y))
        mp2      == IF sx THEN [mp EXCEPT !.x = @ + step.x]
                          ELSE [mp EXCEPT !.y = @ + step.y]
        left_t   == GetTile(m, mp.x, mp.y)
        side     == IF sx THEN 0 ELSE 1
        new_t    == GetTile(m, mp2.x, mp2.y)
        info     == ShapeRayCast(new_t.tile.shape, VSub(tile_pos, IVec(mp2)), d)
        perp_wall_dist == IF sx THEN RSub(sd2.x, delta.x) ELSE RSub(sd2.y, delta.y)
    IN  [floor_some |-> left_t.some,
         floor    |-> FloorHit(VSub(lpos, IVec(mp)), VSub(tile_pos, IVec(mp)),
                               ldist, dist, left_t.tile),
         floor_cell |-> mp,
         floor_shape |-> left_t.tile.shape.kind,
         wall_some |-> new_t.some /\ info.hit,
         wall     |-> WallHit(RAdd(info.length, perp_wall_dist), info.x,
                              new_t.tile.colors[info.side + 1]),
         wall_cell |-> mp2,
         wall_shape |-> new_t.tile.shape.kind,
         side     |-> side,
         map_pos  |-> mp2,
         side_dist |-> sd2,
         last_pos |-> tile_pos,
         last_dist |-> dist]

----------------------------------------------------------------------------
(* main.rs: the map of the program                                         *)

BorderN == 10

\* A run of set_tile calls; the first panic ends it.
RECURSIVE SetTiles(_, _)
SetTiles(m, puts) ==
    IF puts = <<>> THEN [ok |-> TRUE, map |-> m]
    ELSE LET r == SetTile(m, puts[1][1], puts[1][2], puts[1][3])
         IN  IF r.ok THEN SetTiles(r.map, Tail(puts)) ELSE r

\* main.rs: the four edges of the map set to the Box wall.
RECURSIVE BorderFrom(_, _, _)
BorderFrom(m, size, i) ==
    IF i >= size THEN [ok |-> TRUE, map |-> m]
    ELSE LET r == SetTiles(m, << <<i, 0, "WallBox">>, <<i, size - 1, "WallBox">>,
                                 <<0, i, "WallBox">>, <<size - 1, i, "WallBox">> >>)
         IN  IF r.ok THEN BorderFrom(r.map, size, i + 1) ELSE r

BorderMap == BorderFrom(MapNew(BorderN, BorderN, I(1)), BorderN, 0).map

BorderOrigin == Vec(I(5), I(5))

----------------------------------------------------------------------------
(* raycaster.rs: Camera                                                    *)

\* Camera::new, rot given by its cosine c and sine s, fov by t = tan(fov / 2).
CameraNew(p, c, s, t) ==
    [pos       |-> p,
     dir_front |-> Vec(c, s),
     dir_right |-> Vec(s, c),
     plane     |-> VScale(Vec(s, c), t),
     z         |-> I(0)]

RotMatSymmetric(c, s, v) ==
    Vec(RAdd(RMul(c, v.x), RMul(s, v.y)), RAdd(RMul(s, v.x), RMul(c, v.y)))

\* Matrix2::new(c, s, -s, c) * v: the columns are (c, s) and (-s, c).
RotMat(c, s, v) ==
    Vec(RSub(RMul(c, v.x), RMul(s, v.y)), RAdd(RMul(s, v.x), RMul(c, v.y)))

\* Camera::rotate, radians given by its cosine c and sine s.
CameraRotate(cam, c, s) ==
    [cam EXCEPT !.dir_front = RotMat(c, s, @),
                !.dir_right = RotMat(c, s, @),
                !.plane     = RotMat(c, s, @)]

CameraTranslate(cam, delta) ==
    [cam EXCEPT !.pos = VAdd(@, VAdd(VScale(cam.dir_right, delta.x),
                                     VScale(cam.dir_front, delta.y)))]

CameraTranslateZ(cam, delta) == [cam EXCEPT !.z = RAdd(@, delta)]

\* RayIterator::next: the ray of column x of a screen of the given width.
RayDir(cam, x, width) ==
    LET camera_x == RSub(RDiv(RMul(I(2), I(x)), I(width)), I(1))
    IN  VAdd(cam.dir_front, VScale(cam.plane, camera_x))

----------------------------------------------------------------------------
(* raycaster.rs: the integer arithmetic of the Renderer                    *)

I32Max == 2147483647

I32Min == -I32Max - 1

\* f64 as i32: saturating, NaN to 0.
AsI32(a) ==
    IF IsNaN(a) THEN 0
    ELSE IF a[2] = 0 THEN (IF a[1] > 0 THEN I32Max ELSE I32Min)
    ELSE RTrunc(a)

\* min(f64 as usize, cap): the cast saturates, a negative value and NaN to 0.
AsUsizeMin(a, cap) ==
    IF IsNaN(a) \/ a[1] < 0 THEN 0
    ELSE IF a[2] = 0 THEN cap
    ELSE IF RTrunc(a) < cap THEN RTrunc(a) ELSE cap

\* i32 + i32: the sum modulo 2^32, and whether it overflowed.
AddI32(a, b) ==
    IF a > 0 /\ b > 0 /\ a > I32Max - b
    THEN [v |-> (a - I32Max - 1) + (b - I32Max - 1), overflow |-> TRUE]
    ELSE IF a < 0 /\ b < 0 /\ a < I32Min - b
    THEN [v |-> (a + I32Max + 1) + (b + I32Max + 1), overflow |-> TRUE]
    ELSE [v |-> a + b, overflow |-> FALSE]

\* -i32: i32::MIN has no negation.
NegI32(a) ==
    IF a = I32Min THEN [v |-> I32Min, overflow |-> TRUE]
    ELSE [v |-> -a, overflow |-> FALSE]

\* i32 - i32.
SubI32(a, b) ==
    IF b = I32Min
    THEN (IF a < 0 THEN [v |-> (a + I32Max) + 1, overflow |-> FALSE]
                   ELSE [v |-> a + I32Min, overflow |-> TRUE])
    ELSE AddI32(a, -b)

\* i32 / 2: toward zero.
HalfI32(a) == IF a >= 0 THEN a \div 2 ELSE (a \div 2) + (a % 2)

----------------------------------------------------------------------------
(* raycaster.rs: Renderer.  temp_screen[y * width + x] is the pixel of     *)
(* column x and row y: <<r, g, b, remaining_alpha>>.                       *)

ClearPixel == <<I(0), I(0), I(0), I(1)>>

ClearNothing(scr) == scr

\* Lines 317-319: every pixel of temp_screen is cleared.
ClearScreen(scr) == [i \in DOMAIN scr |-> ClearPixel]

SetPixelAlwaysDone(px, color) ==
    [px   |-> <<RAdd(px[1], RMul(RMul(px[4], color[4]), color[1])),
                RAdd(px[2], RMul(RMul(px[4], color[4]), color[2])),
                RAdd(px[3], RMul(RMul(px[4], color[4]), color[3])),
                RMul(px[4], RSub(I(1), color[4]))>>,
     done |-> TRUE]

\* Renderer::set_pixel on one pixel: the pixel after the blend, and the bool
\* returned.
SetPixel(px, color) ==
    LET a == RMul(px[4], RSub(I(1), color[4]))
    IN  [px   |-> <<RAdd(px[1], RMul(RMul(px[4], color[4]), color[1])),
                    RAdd(px[2], RMul(RMul(px[4], color[4]), color[2])),
                    RAdd(px[3], RMul(RMul(px[4], color[4]), color[3])),
                    a>>,
         done |-> REq(a, I(0))]

PixelNeverFinished(px) == FALSE

PixelFinished(px) == REq(px[4], I(0))

\* The loop `for y in rows { if !pixel_finished(x, y) { set_pixel(x, y,
\* color_of[y]) .. } }`: the screen after it and the number of set_pixel calls
\* that returned true.
BlendRows(scr, width, x, rows, color_of) ==
    LET todo == {y \in rows : ~PixelFinished(scr[y * width + x])}
    IN  [scr   |-> [i \in DOMAIN scr |->
                      IF \E y \in todo : i = y * width + x
                      THEN SetPixel(scr[i], color_of[(i - x) \div width]).px
                      ELSE scr[i]],
         count |-> Cardinality({y \in todo :
                                  SetPixel(scr[y * width + x], color_of[y]).done})]

\* Renderer::render_wall.  checks says whether the build checks integer
\* overflow (it panics) or not (the value wraps).  A negative draw_end becomes
\* 2^64 + draw_end as usize, so the loop leaves the screen: the rows up to
\* height - 1 are drawn and the index of row `height` is out of bounds.
RenderWall(scr, width, height, x, wall_hit, cam_z, wall_height, checks) ==
    LET line_height == AsI32(RMul(RDiv(I(height), wall_hit.length), wall_height))
        mid_point == AddI32(height \div 2,
                            AsI32(RDiv(RDiv(RMul(RSub(cam_z, RDiv(wall_height, I(2))),
                                                 I(height)), I(2)),
                                       wall_hit.length)))
        neg     == NegI32(line_height)
        start   == AddI32(HalfI32(neg.v), mid_point.v)
        end     == AddI32(HalfI32(line_height), mid_point.v)
        span    == SubI32(end.v, start.v)
        overflow == \/ mid_point.overflow \/ neg.overflow
                    \/ start.overflow \/ end.overflow
        draw_start == IF start.v > 0 THEN start.v ELSE 0
        draw_end   == IF end.v < height THEN end.v ELSE height
        wraps   == draw_end < 0
        rows    == IF checks /\ overflow THEN {}
                   ELSE IF wraps THEN draw_start..(height - 1)
                   ELSE draw_start..(draw_end - 1)
        todo    == {y \in rows : ~PixelFinished(scr[y * width + x])}
        bad     == {y \in todo : checks /\ (span.overflow \/ SubI32(y, start.v).overflow)}
        drawn_rows == {y \in rows : \A b \in bad : y < b}
        ColorOf(y) == Sample(wall_hit.color,
                             Vec(wall_hit.x, RDiv(I(SubI32(y, start.v).v), I(span.v))))
        blend   == BlendRows(scr, width, x, drawn_rows,
                             [y \in drawn_rows |-> ColorOf(y)])
    IN  [scr   |-> blend.scr,
         drawn |-> blend.count,
         panic |-> (checks /\ overflow) \/ bad # {} \/ wraps]

\* Renderer::y_from_floor_dist
YFromFloorDist(height, dist, z) ==
    IF REq(dist, I(0)) THEN height
    ELSE AsUsizeMin(RDiv(RMul(I(height), RAdd(RSub(dist, z), I(1))),
                         RMul(I(2), dist)),
                    height)

\* Renderer::y_from_ceiling_dist
YFromCeilingDist(height, dist, z) ==
    IF REq(dist, I(0)) THEN 0
    ELSE AsUsizeMin(RDiv(RMul(I(height), RSub(RSub(dist, z), I(1))),
                         RMul(I(2), dist)),
                    height \div 2)

\* `if self.set_pixel(..) && left != 0 { left -= 1 }`, count times.
CountDown(left, count) == IF count > left THEN 0 ELSE left - count

\* The FloorHit arm of the callback of Renderer::render: the floor rows, then
\* the ceiling rows.
RenderFloor(scr, width, height, x, floor_hit, cam_z, left) ==
    LET h  == I(height)
        Mix(weight) == VAdd(VScale(floor_hit.pos2, weight),
                            VScale(floor_hit.pos1, RSub(I(1), weight)))
        Weight(current_dist) == RDiv(RSub(current_dist, floor_hit.dist1),
                                     RSub(floor_hit.dist2, floor_hit.dist1))
        z1 == RSub(RMul(floor_hit.floor_height, I(2)), cam_z)
        FloorColor(y) ==
            Sample(floor_hit.floor_color,
                   Mix(Weight(RDiv(RMul(h, RSub(I(1), z1)),
                                   RSub(RMul(I(2), I(y)), h)))))
        floor_rows == YFromFloorDist(height, floor_hit.dist2, z1)
                        .. (YFromFloorDist(height, floor_hit.dist1, z1) - 1)
        floor == BlendRows(scr, width, x, floor_rows,
                           [y \in floor_rows |-> FloorColor(y)])
        z2 == RSub(RSub(RMul(floor_hit.ceiling_height, I(2)), cam_z), I(2))
        CeilingColor(y) ==
            Sample(floor_hit.ceiling_color,
                   Mix(Weight(RDiv(RMul(h, RAdd(z2, I(1))),
                                   RSub(h, RMul(I(2), I(y)))))))
        ceiling_rows == YFromCeilingDist(height, floor_hit.dist1, z2)
                          .. (YFromCeilingDist(height, floor_hit.dist2, z2) - 1)
        ceiling == BlendRows(floor.scr, width, x, ceiling_rows,
                             [y \in ceiling_rows |-> CeilingColor(y)])
    IN  [scr  |-> ceiling.scr,
         left |-> CountDown(CountDown(left, floor.count), ceiling.count)]

\* The bytes of a pixel: (f64 * 255.0) as u8 saturates, NaN to 0.
PixelBytes(px) ==
    [j \in 1..4 |-> IF j = 4 THEN 255 ELSE AsUsizeMin(RMul(px[j], I(255)), 255)]

----------------------------------------------------------------------------
(* The rays cast: the states of one Map::ray_cast call, its callback       *)
(* returning any value.                                                    *)

GridN == 3

DirComps == {-2, -1, 0, 1, 2}

Palette == TileNames \ {"Default"}

Dirs == {Vec(I(i), I(j)) : i, j \in DirComps} \ {ZeroVec}

Origins ==
    {Vec(Rat(3, 2), Rat(3, 2)), Vec(I(1), I(1)), Vec(Rat(1, 4), Half),
     Vec(Rat(-1, 2), Rat(3, 2)), Vec(RAdd(I(GridN), Half), Half)}

SmallMaps ==
    LET base == MapNew(GridN, GridN, I(1))
        one  == {base} \cup {SetTile(base, 1, 1, t).map : t \in Palette}
    IN  one \cup {SetTile(m, 2, 1, t).map :
                    m \in one, t \in Palette}

TanHalfFov == Rat(1, 2)

VARIABLES map, pos, dir, pc, map_pos, side_dist, last_pos, last_dist, side,
          nsteps, events,
          camera, checks, col, left, temp_screen, screen, frames,
          tile_args, tile

vars == <<map, pos, dir, pc, map_pos, side_dist, last_pos, last_dist, side,
          nsteps, events, camera, checks, col, left, temp_screen, screen,
          frames, tile_args, tile>>

\* The arguments and the result of a Tile::new call.
tvars == <<tile_args, tile>>

\* No tile is being constructed.
NoTile == tile_args = <<>> /\ tile = <<>>

\* The state of the Renderer and its Camera, and the render calls that have
\* returned: the camera and the map each was given and the screen it wrote.
rvars == <<camera, checks, col, left, temp_screen, screen, frames>>

\* No frame is being rendered.
NoRender ==
    /\ camera = CameraNew(pos, I(1), I(0), TanHalfFov)
    /\ checks = FALSE
    /\ col = 0
    /\ left = 0
    /\ temp_screen = <<>>
    /\ screen = <<>>
    /\ frames = <<>>

Event(hit, cell, shape, ret) ==
    [hit |-> hit, cell |-> cell, shape |-> shape, ret |-> ret]

Init ==
    /\ \/ map \in SmallMaps /\ pos \in Origins
       \/ map = BorderMap /\ pos = BorderOrigin
    /\ dir \in Dirs
    /\ pc = "start"
    /\ map_pos = CastI32(pos)
    /\ side_dist = InitSideDist(pos, dir)
    /\ last_pos = pos
    /\ last_dist = I(0)
    /\ side = 0
    /\ nsteps = 0
    /\ events = <<>>
    /\ NoRender
    /\ NoTile

\* Lines 66-99: the set-up and the origin's own cell.
CastStart ==
    /\ pc = "start"
    /\ \E o \in {OriginCell(map, pos, dir)} :
           IF ~o.some
           THEN pc' = "done" /\ events' = events
           ELSE IF o.wall
           THEN \E r \in BOOLEAN :
                  /\ events' = Append(events, Event(o.hit, o.cell, o.shape, r))
                  /\ pc' = IF r THEN "done" ELSE "loop"
           ELSE pc' = "loop" /\ events' = events
    /\ UNCHANGED <<map, pos, dir, map_pos, side_dist, last_pos, last_dist, side, nsteps>>
    /\ UNCHANGED rvars
    /\ UNCHANGED tvars

\* What one pass of the loop emits, the callback returning r1 for the
\* FloorHit and r2 for the WallHit.
PassEvents(lp, r1, r2) ==
    IF ~lp.floor_some THEN <<>>
    ELSE <<Event(lp.floor, lp.floor_cell, lp.floor_shape, r1)>> \o
         (IF ~r1 /\ lp.wall_some
          THEN <<Event(lp.wall, lp.wall_cell, lp.wall_shape, r2)>>
          ELSE <<>>)

PassIgnoresFloorReturn(lp, r1, r2) == ~lp.floor_some \/ (lp.wall_some /\ r2)

PassReturns(lp, r1, r2) == ~lp.floor_some \/ r1 \/ (lp.wall_some /\ r2)

\* Lines 108-166: one pass of the loop.
CastPass ==
    /\ pc = "loop"
    /\ \E lp \in {LoopPass(map, pos, dir, map_pos, side_dist, last_pos, last_dist)} :
           /\ \E r1, r2 \in BOOLEAN :
                /\ events' = events \o PassEvents(lp, r1, r2)
                /\ pc' = IF PassReturns(lp, r1, r2) THEN "done" ELSE "loop"
           /\ map_pos' = lp.map_pos
           /\ side_dist' = lp.side_dist
           /\ last_pos' = lp.last_pos
           /\ last_dist' = lp.last_dist
           /\ side' = lp.side
    /\ nsteps' = nsteps + 1
    /\ UNCHANGED <<map, pos, dir>>
    /\ UNCHANGED rvars
    /\ UNCHANGED tvars

Next == CastStart \/ CastPass

Spec == Init /\ [][Next]_vars

----------------------------------------------------------------------------
(* One frame of Renderer::render: every column's ray is cast with the      *)
(* renderer's callback.  pc is the position inside render: "frame" before  *)
(* the clearing of temp_screen, "column" at the head of the loop over the  *)
(* rays, "rstart", "rfloor" and "rwall" inside Map::ray_cast (before the    *)
(* origin cell, before a pass's step and FloorHit, before a pass's test of *)
(* the cell stepped into), "done" after render and "panic" after a panic.  *)

ScreenW == 2

ScreenH == 4

QuarterTurns == {<<I(1), I(0)>>, <<I(0), I(1)>>, <<I(-1), I(0)>>, <<I(0), I(-1)>>}

RenderStarts == {Vec(Rat(3, 2), Rat(3, 2)), Vec(I(1), I(1))}

RenderMoves == {ZeroVec, Vec(I(0), Rat(-7, 5))}

EyeHeights == {I(0), I(-1), I(-2), I(2)}

RenderMaps ==
    {SetTile(SetTile(MapNew(GridN, GridN, I(1)), 1, 1, t1).map, 2, 1, t2).map :
        t1 \in {"Default", "WallBox", "WallCircle", "FloorVoid"},
        t2 \in {"Default", "WallAAB", "WallLine"}}

\* The camera after Camera::new, rotate, translate and translate_z.
RenderCameras ==
    {CameraTranslateZ(
         CameraTranslate(CameraRotate(CameraNew(p, I(1), I(0), TanHalfFov), r[1], r[2]), d),
         z) :
        p \in RenderStarts, r \in QuarterTurns, d \in RenderMoves, z \in EyeHeights}

\* Renderer::new, and the arguments of render.
RenderInit ==
    /\ map \in RenderMaps
    /\ camera \in RenderCameras
    /\ checks \in BOOLEAN
    /\ pos = camera.pos
    /\ dir = camera.dir_front
    /\ pc = "frame"
    /\ map_pos = CastI32(pos)
    /\ side_dist = Vec(I(0), I(0))
    /\ last_pos = pos
    /\ last_dist = I(0)
    /\ side = 0
    /\ nsteps = 0
    /\ events = <<>>
    /\ col = 0
    /\ left = 0
    /\ temp_screen = [i \in 0..(ScreenW * ScreenH - 1) |-> <<I(0), I(0), I(0), I(0)>>]
    /\ screen = <<>>
    /\ frames = <<>>
    /\ NoTile

cast_vars == <<map_pos, side_dist, last_pos, last_dist, side, nsteps, tile_args, tile>>

\* Lines 317-322: temp_screen is cleared.
RenderBegin ==
    /\ pc = "frame"
    /\ temp_screen' = ClearScreen(temp_screen)
    /\ col' = 0
    /\ pc' = "column"
    /\ UNCHANGED <<frames, map, pos, dir, camera, checks, left, screen, events>>
    /\ UNCHANGED cast_vars

\* Lines 323-325 and map.rs 66-82: the next ray, and the set-up of its cast.
RenderColumn ==
    /\ pc = "column"
    /\ col < ScreenW
    /\ dir' = RayDir(camera, col, ScreenW)
    /\ left' = ScreenH
    /\ map_pos' = CastI32(pos)
    /\ side_dist' = InitSideDist(pos, dir')
    /\ last_pos' = pos
    /\ last_dist' = I(0)
    /\ side' = 0
    /\ nsteps' = 0
    /\ events' = <<>>
    /\ pc' = "rstart"
    /\ UNCHANGED <<frames, map, pos, camera, checks, col, temp_screen, screen>>
    /\ UNCHANGED tvars

\* Lines 374-379: the frame is copied to the screen.
RenderFinish ==
    /\ pc = "column"
    /\ col >= ScreenW
    /\ screen' = [i \in DOMAIN temp_screen |-> PixelBytes(temp_screen[i])]
    /\ frames' = Append(frames, [camera |-> camera, map |-> map, screen |-> screen'])
    /\ pc' = "done"
    /\ UNCHANGED <<map, pos, dir, camera, checks, col, left, temp_screen, events>>
    /\ UNCHANGED cast_vars

\* ray_cast returns: line 371, x += 1.
CastReturns ==
    /\ pc' = "column"
    /\ col' = col + 1

\* Lines 326-329: the WallHit arm of the callback.  ret is the value it
\* returns, on to when it returns false.
OnWallHit(w, on) ==
    \E rw \in {RenderWall(temp_screen, ScreenW, ScreenH, col, w.hit, camera.z,
                          map.wall_height, checks)} :
        /\ temp_screen' = rw.scr
        /\ IF rw.panic \/ (checks /\ rw.drawn > left)
           THEN /\ events' = Append(events, Event(w.hit, w.cell, w.shape, FALSE))
                /\ left' = left
                /\ pc' = "panic"
                /\ col' = col
           ELSE /\ left' = left - rw.drawn
                /\ events' = Append(events, Event(w.hit, w.cell, w.shape, left' = 0))
                /\ IF left' = 0 THEN CastReturns ELSE pc' = on /\ col' = col

\* map.rs 84-99: the origin's own cell.
RenderCastStart ==
    /\ pc = "rstart"
    /\ \E o \in {OriginCell(map, pos, dir)} :
           IF ~o.some
           THEN CastReturns /\ UNCHANGED <<events, left, temp_screen>>
           ELSE IF o.wall
           THEN OnWallHit(o, "rfloor")
           ELSE pc' = "rfloor" /\ UNCHANGED <<col, events, left, temp_screen>>
    /\ UNCHANGED <<frames, map, pos, dir, camera, checks, screen>>
    /\ UNCHANGED cast_vars

\* map.rs 108-146 and lines 330-368: the step of a pass and the FloorHit arm
\* of the callback.
RenderPassFloor ==
    /\ pc = "rfloor"
    /\ \E lp \in {LoopPass(map, pos, dir, map_pos, side_dist, last_pos, last_dist)} :
           /\ map_pos' = lp.map_pos
           /\ side_dist' = lp.side_dist
           /\ last_pos' = lp.last_pos
           /\ last_dist' = lp.last_dist
           /\ side' = lp.side
           /\ IF ~lp.floor_some
              THEN CastReturns /\ UNCHANGED <<events, left, temp_screen>>
              ELSE \E rf \in {RenderFloor(temp_screen, ScreenW, ScreenH, col, lp.floor,
                                          camera.z, left)} :
                     /\ temp_screen' = rf.scr
                     /\ left' = rf.left
                     /\ events' = Append(events, Event(lp.floor, lp.floor_cell,
                                                       lp.floor_shape, rf.left = 0))
                     /\ IF rf.left = 0 THEN CastReturns ELSE pc' = "rwall" /\ col' = col
    /\ nsteps' = nsteps + 1
    /\ UNCHANGED <<frames, map, pos, dir, camera, checks, screen>>
    /\ UNCHANGED tvars

\* map.rs 148-165: the test of the cell stepped into.
RenderPassWall ==
    /\ pc = "rwall"
    /\ \E w \in {PassWall(map, dir, map_pos, side_dist, last_pos, side)} :
           IF w.some
           THEN OnWallHit(w, "rfloor")
           ELSE pc' = "rfloor" /\ UNCHANGED <<col, events, left, temp_screen>>
    /\ UNCHANGED <<frames, map, pos, dir, camera, checks, screen>>
    /\ UNCHANGED cast_vars

RenderNext ==
    \/ RenderBegin
    \/ RenderColumn
    \/ RenderCastStart
    \/ RenderPassFloor
    \/ RenderPassWall
    \/ RenderFinish

SpecRender == RenderInit /\ [][RenderNext]_vars

----------------------------------------------------------------------------
(* Several frames: Renderer::new, then render called again and again on    *)
(* the same Renderer, each time with any camera and any map.               *)

MaxFrames == 3

FrameCameras ==
    {CameraTranslate(CameraRotate(CameraNew(Vec(Rat(3, 2), Rat(3, 2)), I(1), I(0),
                                            TanHalfFov), r[1], r[2]), d) :
        r \in {<<I(-1), I(0)>>}, d \in RenderMoves}

FrameMaps ==
    {SetTile(SetTile(MapNew(GridN, GridN, I(1)), 1, 1, "WallBox").map, 2, 1, t2).map :
        t2 \in {"Default", "WallAAB"}}

FramesInit ==
    /\ map \in FrameMaps
    /\ camera \in FrameCameras
    /\ checks \in BOOLEAN
    /\ pos = camera.pos
    /\ dir = camera.dir_front
    /\ pc = "frame"
    /\ map_pos = CastI32(pos)
    /\ side_dist = Vec(I(0), I(0))
    /\ last_pos = pos
    /\ last_dist = I(0)
    /\ side = 0
    /\ nsteps = 0
    /\ events = <<>>
    /\ col = 0
    /\ left = 0
    /\ temp_screen = [i \in 0..(ScreenW * ScreenH - 1) |-> <<I(0), I(0), I(0), I(0)>>]
    /\ screen = <<>>
    /\ frames = <<>>
    /\ NoTile

\* render has returned and is called again, with any camera and any map;
\* temp_screen is as the frame before left it.
RenderAgain ==
    /\ pc = "done"
    /\ Len(frames) < MaxFrames
    /\ map' \in FrameMaps
    /\ camera' \in FrameCameras
    /\ pos' = camera'.pos
    /\ pc' = "frame"
    /\ UNCHANGED <<dir, checks, col, left, temp_screen, screen, frames, events>>
    /\ UNCHANGED cast_vars

FramesNext == RenderNext \/ RenderAgain

SpecFrames == FramesInit /\ [][FramesNext]_vars

----------------------------------------------------------------------------
(* The blends of one pixel within a frame: the body of the loops of        *)
(* render_wall and render, `if !pixel_finished(x, y) { set_pixel(x, y,     *)
(* color) }`, with any samples.  events holds the samples blended.         *)

MaxBlends == 3

\* The values a sample's channel takes: Color::Test samples a position, which
\* is NaN or infinite where current_dist divides by zero.
Channels == {I(0), Rat(1, 2), I(1), NaN, PosInf}

Alphas == {I(0), Rat(3, 10), I(1)}

Samples == {<<c, I(1), c, a>> : c \in Channels, a \in Alphas}

\* No ray is being cast.
NoCast ==
    /\ map = MapNew(1, 1, I(1))
    /\ pos = ZeroVec
    /\ dir = OneVec
    /\ map_pos = CastI32(pos)
    /\ side_dist = ZeroVec
    /\ last_pos = pos
    /\ last_dist = I(0)
    /\ side = 0
    /\ nsteps = 0

BlendInit ==
    /\ NoCast
    /\ NoTile
    /\ camera = CameraNew(pos, I(1), I(0), TanHalfFov)
    /\ checks = FALSE
    /\ col = 0
    /\ left = 1
    /\ screen = <<>>
    /\ frames = <<>>
    /\ pc = "blend"
    /\ events = <<>>
    /\ temp_screen = [i \in {0} |-> ClearPixel]

\* Lines 415-423 (and 338-346, 356-364): one pass of the loop body on the
\* pixel.
Blend ==
    /\ pc = "blend"
    /\ Len(events) < MaxBlends
    /\ \E color \in Samples :
         \E b \in {BlendRows(temp_screen, 1, 0, {0}, [y \in {0} |-> color])} :
           /\ temp_screen' = b.scr
           /\ left' = CountDown(left, b.count)
           /\ events' = Append(events, color)
    /\ UNCHANGED <<map, pos, dir, pc, camera, checks, col, screen, frames>>
    /\ UNCHANGED cast_vars

SpecBlend == BlendInit /\ [][Blend]_vars

----------------------------------------------------------------------------
(* Tile::new called with any shape and any list of colors.                 *)

MaxColors == 5

Shapes ==
    {ShapeVoid, ShapeBox,
     ShapeAAB(Vec(Rat(2, 10), Rat(2, 10)), Vec(Rat(3, 10), Rat(8, 10))),
     ShapeCircle(Vec(Half, Half), Half), ShapeLine(ZeroVec, OneVec)}

\* The lists of at most n colors.
ColorLists(n) ==
    UNION {[1..k -> {ColorTest2, ColorSolid(I(1), I(1), I(1), I(0))}] : k \in 0..n}

TileInit ==
    /\ NoCast
    /\ NoRender
    /\ events = <<>>
    /\ pc = "new"
    /\ tile_args \in [shape : Shapes, colors : ColorLists(MaxColors)]
    /\ tile = <<>>

\* Tile::new: it panics, or it returns the tile.
TileNewCall ==
    /\ pc = "new"
    /\ \E r \in {TileNew(tile_args.shape, tile_args.colors,
                         ColorTest, I(0), ColorTest, I(1))} :
           IF r.ok
           THEN pc' = "made" /\ tile' = r.tile
           ELSE pc' = "panic" /\ tile' = tile
    /\ UNCHANGED <<map, pos, dir, events, tile_args>>
    /\ UNCHANGED <<map_pos, side_dist, last_pos, last_dist, side, nsteps>>
    /\ UNCHANGED rvars

SpecTile == TileInit /\ [][TileNewCall]_vars

----------------------------------------------------------------------------
(* Map::new, then any calls of Map::set_tile, then a call of Map::get_tile. *)
(* events holds the set_tile calls made, tile_args the cell asked of        *)
(* get_tile and tile what it returned; pc is "ops" until a set_tile panics  *)
(* ("panic") or get_tile has returned ("got").                              *)

MapW == 2

MapH == 3

MaxSets == 2

\* The tiles that set_tile is given.
SetNames == {"WallBox", "FloorVoid"}

MapInit ==
    /\ map = MapNew(MapW, MapH, I(1))
    /\ pos = ZeroVec
    /\ dir = OneVec
    /\ map_pos = CastI32(pos)
    /\ side_dist = ZeroVec
    /\ last_pos = pos
    /\ last_dist = I(0)
    /\ side = 0
    /\ nsteps = 0
    /\ NoRender
    /\ NoTile
    /\ events = <<>>
    /\ pc = "ops"

\* Map::set_tile(x, y, tile), x and y any usize up to the first out of range.
MapSetTile ==
    /\ pc = "ops"
    /\ Len(events) < MaxSets
    /\ \E x \in 0..MapW, y \in 0..MapH, t \in SetNames :
         \E r \in {SetTile(map, x, y, t)} :
           /\ map' = r.map
           /\ events' = Append(events, [x |-> x, y |-> y, tile |-> t])
           /\ pc' = IF r.ok THEN "ops" ELSE "panic"
    /\ UNCHANGED <<pos, dir, map_pos, side_dist, last_pos, last_dist, side, nsteps>>
    /\ UNCHANGED rvars
    /\ UNCHANGED tvars

\* Map::get_tile(x, y), x and y any i32 from -1 to the first out of range.
MapGetTile ==
    /\ pc = "ops"
    /\ \E x \in -1..MapW, y \in -1..MapH :
         /\ tile_args' = [x |-> x, y |-> y]
         /\ tile' = GetTile(map, x, y)
    /\ pc' = "got"
    /\ UNCHANGED <<map, pos, dir, map_pos, side_dist, last_pos, last_dist, side, nsteps,
                   events>>
    /\ UNCHANGED rvars

MapNext == MapSetTile \/ MapGetTile

SpecMap == MapInit /\ [][MapNext]_vars

----------------------------------------------------------------------------
(* Camera::new, then any calls of rotate, translate and translate_z.        *)
(* events holds the calls made, each with the camera before and after it.  *)

MaxOps == 3

\* The angles, as <<cosine, sine>>: the quarter turns and the angle of the
\* 3-4-5 triangle, each with its opposite.
Angles ==
    {<<I(1), I(0)>>, <<I(0), I(1)>>, <<I(0), I(-1)>>, <<I(-1), I(0)>>,
     <<Rat(3, 5), Rat(4, 5)>>, <<Rat(3, 5), Rat(-4, 5)>>}

MoveDeltas == {Vec(I(1), I(0)), Vec(I(0), Half)}

ZDeltas == {I(1), Rat(-1, 2)}

CameraCall(op, c, s, before, after) ==
    [op |-> op, c |-> c, s |-> s, before |-> before, after |-> after]

CameraInit ==
    /\ map = MapNew(1, 1, I(1))
    /\ pos = BorderOrigin
    /\ dir = OneVec
    /\ map_pos = CastI32(pos)
    /\ side_dist = ZeroVec
    /\ last_pos = pos
    /\ last_dist = I(0)
    /\ side = 0
    /\ nsteps = 0
    /\ NoTile
    /\ \E a \in Angles : camera = CameraNew(pos, a[1], a[2], TanHalfFov)
    /\ checks = FALSE
    /\ col = 0
    /\ left = 0
    /\ temp_screen = <<>>
    /\ screen = <<>>
    /\ frames = <<>>
    /\ events = <<>>
    /\ pc = "camera"

\* What a camera call leaves alone.
CameraFrame ==
    /\ UNCHANGED <<map, pos, dir, pc, map_pos, side_dist, last_pos, last_dist, side, nsteps>>
    /\ UNCHANGED <<checks, col, left, temp_screen, screen, frames>>
    /\ UNCHANGED tvars

CamRotate ==
    /\ Len(events) < MaxOps
    /\ \E a \in Angles :
         /\ camera' = CameraRotate(camera, a[1], a[2])
         /\ events' = Append(events, CameraCall("rotate", a[1], a[2], camera, camera'))
    /\ CameraFrame

CamTranslate ==
    /\ Len(events) < MaxOps
    /\ \E d \in MoveDeltas :
         /\ camera' = CameraTranslate(camera, d)
         /\ events' = Append(events, CameraCall("translate", d.x, d.y, camera, camera'))
    /\ CameraFrame

CamTranslateZ ==
    /\ Len(events) < MaxOps
    /\ \E d \in ZDeltas :
         /\ camera' = CameraTranslateZ(camera, d)
         /\ events' = Append(events, CameraCall("translate_z", d, I(0), camera, camera'))
    /\ CameraFrame

CameraNext == CamRotate \/ CamTranslate \/ CamTranslateZ

SpecCamera == CameraInit /\ [][CameraNext]_vars

----------------------------------------------------------------------------
(* Shape::ray_cast called with any shape and any ray: tile_args holds the   *)
(* shape, pos and dir the ray, tile what ray_cast returned.                 *)

CoordN == 4

\* The coordinates of the origins: the quarters from -CoordN / 4 to
\* 1 + CoordN / 4.
Coords == {Rat(k, 4) : k \in (-CoordN)..(4 + CoordN)}

ShapeInit ==
    /\ map = MapNew(1, 1, I(1))
    /\ pos \in {Vec(x, y) : x, y \in Coords}
    /\ dir \in Dirs
    /\ map_pos = CastI32(pos)
    /\ side_dist = ZeroVec
    /\ last_pos = pos
    /\ last_dist = I(0)
    /\ side = 0
    /\ nsteps = 0
    /\ NoRender
    /\ events = <<>>
    /\ pc = "cast"
    /\ tile_args \in [shape : Shapes]
    /\ tile = <<>>

ShapeCast ==
    /\ pc = "cast"
    /\ tile' = ShapeRayCast(tile_args.shape, pos, dir)
    /\ pc' = "hit"
    /\ UNCHANGED <<map, pos, dir, map_pos, side_dist, last_pos, last_dist, side, nsteps,
                   events, tile_args>>
    /\ UNCHANGED rvars

SpecShape == ShapeInit /\ [][ShapeCast]_vars


IsWall(e) == e.hit.kind = "WallHit"

IsFloor(e) == e.hit.kind = "FloorHit"

\* Where an event lies: a WallHit at its length, a FloorHit from dist1 to dist2.
Near(e) == IF IsWall(e) THEN e.hit.length ELSE e.hit.dist1

Far(e) == IF IsWall(e) THEN e.hit.length ELSE e.hit.dist2

NoneReturnedTrue == \A i \in 1..Len(events) : ~events[i].ret

\* C1: the events of one ray_cast call are in increasing order of distance
\* from the origin: no event is emitted after an event that lies farther
\* away, so no event begins nearer than where an earlier event ends.
C1_OrderedByDistance ==
    \A i, j \in 1..Len(events) :
        i < j => ~RLt(Near(events[j]), Far(events[i]))

\* C2: the callback is never invoked again after it has returned true: only
\* the last event of a call can have got true, and the call has then ended.
C2_StopsOnTrue ==
    /\ \A i \in 1..(Len(events) - 1) : ~events[i].ret
    /\ (events # <<>> /\ events[Len(events)].ret) => pc = "done"

C2_Witness ==
    /\ pc = "done"
    /\ Len(events) >= 3
    /\ IsFloor(events[Len(events)])
    /\ events[Len(events)].ret

\* C3: a call makes at most width + height cell steps, every event comes from
\* a cell of the grid, and once the ray has stepped into a cell without a tile
\* the next pass ends the call and emits nothing.
C3_StepsBounded ==
    /\ nsteps <= map.width + map.height
    /\ pc = "loop" => nsteps < map.width + map.height
    /\ \A i \in 1..Len(events) : InGrid(map, events[i].cell.x, events[i].cell.y)

C3_SilentOutside ==
    (pc = "loop" /\ ~InGrid(map, map_pos.x, map_pos.y))
        => (events' = events /\ pc' = "done")

C3_EndsAtEdge == []C3_StepsBounded /\ [][C3_SilentOutside]_vars

C3_Witness ==
    /\ pc = "done"
    /\ NoneReturnedTrue
    /\ InGrid(map, CastI32(pos).x, CastI32(pos).y)
    /\ ~InGrid(map, map_pos.x, map_pos.y)
    /\ nsteps = map.width + map.height
    /\ events # <<>>

IsBorderCell(c) ==
    c.x = 0 \/ c.y = 0 \/ c.x = BorderN - 1 \/ c.y = BorderN - 1

\* The square of the distance travelled to a point at ray parameter len.
TravelSquared(len) == RMul(RMul(len, len), VDot(dir, dir))

HalfDiagonalSquared == Rat(3249, 100)

BorderWallHit(e) ==
    /\ IsWall(e)
    /\ IsBorderCell(e.cell)
    /\ IsFinite(e.hit.length)
    /\ RLe(I(0), e.hit.length)
    /\ RLe(RMul(e.hit.length, e.hit.length), HalfDiagonalSquared)
    /\ RLe(TravelSquared(e.hit.length), HalfDiagonalSquared)

\* C7: on the 10x10 map with Box walls on its four edges and the origin at
\* (5, 5), a ray has yielded a WallHit of a border tile, at a finite length of
\* at most 5.7, by the time it stands outside the grid or the call has ended.
C7_BorderAlwaysHit ==
    (/\ map = BorderMap
     /\ pos = BorderOrigin
     /\ NoneReturnedTrue
     /\ pc = "done" \/ ~InGrid(map, map_pos.x, map_pos.y))
        => \E i \in 1..Len(events) : BorderWallHit(events[i])

C7_Witness ==
    /\ map = BorderMap
    /\ pos = BorderOrigin
    /\ dir = Vec(I(1), I(2))
    /\ NoneReturnedTrue
    /\ pc = "done"
    /\ \E i \in 1..Len(events) : BorderWallHit(events[i])

AllVoid(m) ==
    \A i \in DOMAIN m.tiles : TileValue(m.tiles[i], m.wall_height).shape.kind = "Void"

\* C8: no WallHit comes from a cell whose shape is Void: every WallHit comes
\* from a Box, an AxisAlignedBox, a Circle or a Line, and a map of Void
\* tiles only yields FloorHits only.
C8_NoWallHitFromVoid ==
    /\ \A i \in 1..Len(events) :
          IsWall(events[i]) =>
              events[i].shape \in {"Box", "AxisAlignedBox", "Circle", "Line"}
    /\ AllVoid(map) => \A i \in 1..Len(events) : IsFloor(events[i])

C8_Witness ==
    /\ Len(events) >= 3
    /\ IsFloor(events[1]) /\ events[1].shape = "Void"
    /\ IsFloor(events[2]) /\ events[2].shape = "Void"
    /\ IsWall(events[3])

----------------------------------------------------------------------------
(* Properties of Renderer::render                                          *)

\* The callback is between two calls, or ray_cast has returned: the column
\* that `left` counts is col inside the cast and col - 1 after it.
InColumn ==
    pc \in {"rstart", "rfloor", "rwall"} \/ (pc \in {"column", "done"} /\ col > 0)

CurrentColumn == IF pc \in {"column", "done"} THEN col - 1 ELSE col

\* The rows of column x whose pixel has remaining_alpha # 0.
Unfinished(x) ==
    {y \in 0..(ScreenH - 1) : ~PixelFinished(temp_screen[y * ScreenW + x])}

\* C4: after any sequence of WallHit and FloorHit events of a column, `left`
\* is the number of pixels of the column whose remaining_alpha is not 0 (so
\* it never underflows), and the callback has returned true only with every
\* pixel of the column at remaining_alpha = 0.
C4_LeftCountsUnfinished ==
    InColumn =>
        /\ left = Cardinality(Unfinished(CurrentColumn))
        /\ \A i \in 1..Len(events) : events[i].ret => Unfinished(CurrentColumn) = {}

\* A column completed by a FloorHit, after a WallHit that left pixels open.
C4_Witness ==
    /\ pc = "column"
    /\ col > 0
    /\ Len(events) >= 3
    /\ IsWall(events[1])
    /\ IsFloor(events[Len(events)])
    /\ events[Len(events)].ret
    /\ left = 0
    /\ Unfinished(col - 1) = {}

\* C9: for every pose of the camera, render ends without a panic: no row
\* outside 0..height-1 is indexed and the i32 arithmetic of the wall span does
\* not overflow.
C9_RenderNeverPanics == pc # "panic"

\* A surface whose sample has alpha = 0 wherever it is sampled.
TransparentSurface(color) == color.kind = "Solid" /\ REq(color.rgba[4], I(0))

TransparentWall(e) == IsWall(e) /\ TransparentSurface(e.hit.color)

SolidWall(e) == IsWall(e) /\ ~TransparentSurface(e.hit.color)

\* The step delivers a WallHit of a transparent surface to the callback.
TransparentDelivered ==
    /\ Len(events') = Len(events) + 1
    /\ TransparentWall(events'[Len(events')])

\* The WallHits that lie on a ray, in the order of the traversal: those
\* ray_cast hands to a callback that never returns true.
RECURSIVE WallsFrom(_, _, _, _, _, _, _)
WallsFrom(m, p, d, mp, sd, lpos, ldist) ==
    LET lp == LoopPass(m, p, d, mp, sd, lpos, ldist)
    IN  IF ~lp.floor_some THEN <<>>
        ELSE (IF lp.wall_some THEN <<lp.wall>> ELSE <<>>)
             \o WallsFrom(m, p, d, lp.map_pos, lp.side_dist, lp.last_pos, lp.last_dist)

WallsOnRay(m, p, d) ==
    LET o == OriginCell(m, p, d)
    IN  IF ~o.some THEN <<>>
        ELSE (IF o.wall THEN <<o.hit>> ELSE <<>>)
             \o WallsFrom(m, p, d, CastI32(p), InitSideDist(p, d), p, I(0))

\* The WallHits delivered so far to the callback of the current column.
WallsDelivered ==
    LET RECURSIVE Hits(_)
        Hits(es) == IF es = <<>> THEN <<>>
                    ELSE (IF IsWall(es[1]) THEN <<es[1].hit>> ELSE <<>>) \o Hits(Tail(es))
    IN  Hits(events)

\* ray_cast has returned for the current column.
CastEnded == pc \in {"column", "done"} /\ col > 0

C6_Step ==
    /\ TransparentDelivered =>
           /\ ~events'[Len(events')].ret
           /\ temp_screen' = temp_screen
           /\ left' = left
           /\ pc' \in {"rfloor", "panic"}
    /\ (pc \in {"rstart", "rfloor", "rwall"} /\ pc' = "column") =>
           left' = 0 \/ ~InGrid(map, map_pos.x, map_pos.y)

----------------------------------------------------------------------------
(* Properties of Renderer::set_pixel and of Tile::new                      *)

\* C5: a blend of a sample with alpha = 1 leaves the pixel with
\* remaining_alpha = 0, and a blend into a pixel with remaining_alpha = 0,
\* with any sample, leaves its rgb and its remaining_alpha as they were.
C5_Step ==
    events' # events =>
        /\ REq(events'[Len(events')][4], I(1)) => REq(temp_screen'[0][4], I(0))
        /\ REq(temp_screen[0][4], I(0)) => temp_screen' = temp_screen

C5_OpaqueIsFinal == [][C5_Step]_vars

\* A sample of alpha 1, then a sample with a NaN channel and one with an
\* infinite channel, blended into the same pixel.
C5_Witness ==
    /\ Len(events) = 3
    /\ events[1] = <<Rat(1, 2), I(1), Rat(1, 2), I(1)>>
    /\ IsNaN(events[2][1])
    /\ events[3][1] = PosInf
    /\ temp_screen[0] = <<Rat(1, 2), I(1), Rat(1, 2), I(0)>>

\* The side count of each shape.
SideCount(kind) ==
    CASE kind = "Void" -> 0
      [] kind = "Box" -> 4
      [] kind = "AxisAlignedBox" -> 4
      [] kind = "Circle" -> 1
      [] kind = "Line" -> 2

\* C10: Tile::new panics exactly when the number of colors supplied differs
\* from the side count of the shape (Void 0, Box 4, AxisAlignedBox 4,
\* Circle 1, Line 2); the tile it returns holds the i-th colour supplied as
\* its i-th side colour.
C10_TileNewChecksCount ==
    LET n == Len(tile_args.colors)
        k == SideCount(tile_args.shape.kind)
    IN  /\ pc = "panic" => n # k
        /\ pc = "made" =>
              /\ n = k
              /\ tile.shape = tile_args.shape
              /\ \A i \in 1..k : tile.colors[i] = tile_args.colors[i]

C10_Witness ==
    /\ pc = "made"
    /\ tile_args.shape.kind = "Line"
    /\ tile.colors[1] = ColorSolid(I(1), I(1), I(1), I(0))
    /\ tile.colors[2] = ColorTest2

----------------------------------------------------------------------------
(* Properties of Map::set_tile and Map::get_tile                           *)

\* The call is outside the map given to Map::new.
OutOfRange(c) == c.x >= MapW \/ c.y >= MapH

\* C11: a set_tile call with x >= width or y >= height panics, and leaves
\* every tile of the map as it was.
C11_Step ==
    events' # events =>
        (OutOfRange(events'[Len(events')]) => pc' = "panic" /\ map' = map)

C11_SetTileOutOfRangePanics == [][C11_Step]_vars

\* set_tile(width, 0, ..) has panicked, and the first cell of the next row
\* still holds the tile stored there before.
C11_Witness ==
    /\ pc = "panic"
    /\ Len(events) = 2
    /\ events[1] = [x |-> 0, y |-> 1, tile |-> "WallBox"]
    /\ events[2] = [x |-> MapW, y |-> 0, tile |-> "FloorVoid"]
    /\ map.tiles[MapW] = "WallBox"

\* The tile most recently stored at (x, y) by the calls made, "Default" when
\* none was.
RECURSIVE LastStored(_, _, _)
LastStored(calls, x, y) ==
    IF calls = <<>> THEN "Default"
    ELSE LET c == calls[Len(calls)]
         IN  IF c.x = x /\ c.y = y THEN c.tile
             ELSE LastStored(SubSeq(calls, 1, Len(calls) - 1), x, y)

\* C12: the map keeps the width and height given to new; after any in-range
\* set_tile calls, get_tile(x, y) is None exactly when x < 0, x >= width,
\* y < 0 or y >= height, and is otherwise the tile most recently stored at
\* (x, y), or the default Void tile when none was stored there.
C12_GetTileReturnsLastStored ==
    /\ map.width = MapW /\ map.height = MapH
    /\ pc = "got" =>
          LET x == tile_args.x
              y == tile_args.y
          IN  /\ tile.some <=> ~(x < 0 \/ x >= MapW \/ y < 0 \/ y >= MapH)
              /\ tile.some =>
                    tile.tile = TileValue(LastStored(events, x, y), map.wall_height)

\* A cell stored twice is asked for, its neighbours never stored.
C12_Witness ==
    /\ pc = "got"
    /\ Len(events) = 2
    /\ events[1] = [x |-> 1, y |-> 0, tile |-> "WallBox"]
    /\ events[2] = [x |-> 1, y |-> 0, tile |-> "FloorVoid"]
    /\ tile_args = [x |-> 1, y |-> 0]
    /\ tile.some
    /\ tile.tile = FloorVoid

----------------------------------------------------------------------------
(* Properties of the Camera                                                *)

\* Two calls in a row that are rotate(theta) and rotate(-theta).
RoundTrip(i) ==
    /\ events[i].op = "rotate"
    /\ events[i + 1].op = "rotate"
    /\ events[i + 1].c = events[i].c
    /\ events[i + 1].s = RNeg(events[i].s)

\* C13: rotate(theta) followed by rotate(-theta) restores dir_front,
\* dir_right and plane to what they were before the two calls, and a rotate
\* leaves pos and z as they were (angles whose sine and cosine are exact).
C13_RotateRoundTrip ==
    /\ \A i \in 1..Len(events) :
          events[i].op = "rotate" =>
              /\ events[i].after.pos = events[i].before.pos
              /\ events[i].after.z = events[i].before.z
    /\ \A i \in 1..(Len(events) - 1) :
          RoundTrip(i) => events[i + 1].after = events[i].before

\* The round trip by the angle of the 3-4-5 triangle, of a camera that was
\* moved off its first pose.
C13_Witness ==
    /\ Len(events) = 3
    /\ events[1].op = "translate"
    /\ RoundTrip(2)
    /\ events[2].c = Rat(3, 5)
    /\ events[2].after # events[2].before
    /\ camera = events[2].before

\* The quarter turn that takes dir_front to dir_right when rot = 0:
\* (1, 0) to (0, 1).
Perp(v) == Vec(RNeg(v.y), v.x)

VEq(a, b) == REq(a.x, b.x) /\ REq(a.y, b.y)

\* C18: in every state of the camera, dir_right is dir_front turned by the
\* quarter turn that relates them at rot = 0, and plane is tan(fov / 2) times
\* dir_right.
C18_VectorsConsistent ==
    /\ VEq(camera.dir_right, Perp(camera.dir_front))
    /\ VEq(camera.plane, VScale(camera.dir_right, TanHalfFov))

----------------------------------------------------------------------------
(* Properties of the frames of one Renderer                                *)

\* C14: render keeps nothing from one call to the next.  Right after the
\* clearing that begins a call every pixel's accumulator is black with
\* remaining_alpha = 1; two calls given the same camera and the same map
\* have written the same screen, whatever was rendered before each; and
\* every pixel written has the alpha byte 255.
C14_NoCrossFrameState ==
    /\ (pc = "column" /\ col = 0) =>
           \A i \in DOMAIN temp_screen : temp_screen[i] = <<I(0), I(0), I(0), I(1)>>
    /\ \A i, j \in 1..Len(frames) :
           (frames[i].camera = frames[j].camera /\ frames[i].map = frames[j].map)
               => frames[i].screen = frames[j].screen
    /\ \A i \in 1..Len(frames) :
           \A k \in DOMAIN frames[i].screen : frames[i].screen[k][4] = 255

\* The first and the third frame have the same camera and map, the second
\* another camera and map, and another picture.
C14_Witness ==
    /\ Len(frames) = 3
    /\ frames[1].camera = frames[3].camera
    /\ frames[1].map = frames[3].map
    /\ frames[2].camera # frames[1].camera
    /\ frames[2].map # frames[1].map
    /\ frames[2].screen # frames[1].screen
    /\ \E k \in DOMAIN frames[3].screen : frames[3].screen[k][1] > 0

----------------------------------------------------------------------------
(* Properties of Shape::ray_cast                                           *)

\* The ray runs along an axis into the unit square from outside it: the face
\* it meets first and its distance to that face.
AxisRayInto(p, d) ==
    LET within(a) == RLe(I(0), a) /\ RLe(a, I(1))
    IN  CASE d = Vec(I(1), I(0)) /\ RLt(p.x, I(0)) /\ within(p.y) ->
                [into |-> TRUE, side |-> 0, length |-> RNeg(p.x)]
          [] d = Vec(I(-1), I(0)) /\ RLt(I(1), p.x) /\ within(p.y) ->
                [into |-> TRUE, side |-> 1, length |-> RSub(p.x, I(1))]
          [] d = Vec(I(0), I(1)) /\ RLt(p.y, I(0)) /\ within(p.x) ->
                [into |-> TRUE, side |-> 2, length |-> RNeg(p.y)]
          [] d = Vec(I(0), I(-1)) /\ RLt(I(1), p.y) /\ within(p.x) ->
                [into |-> TRUE, side |-> 3, length |-> RSub(p.y, I(1))]
          [] OTHER -> [into |-> FALSE, side |-> 0, length |-> NaN]

\* C15: a ray cast along an axis into a Box, from an origin outside the unit
\* square and on a line that meets it, hits; the side returned is the face
\* nearest the origin (0 min-x, 1 max-x, 2 min-y, 3 max-y) and the length the
\* distance from the origin to that face.  (The zero component of the
\* direction divides to an infinity or a NaN, which fails the bound test of
\* that axis.)
C15_BoxAxisRay ==
    (pc = "hit" /\ tile_args.shape.kind = "Box" /\ AxisRayInto(pos, dir).into) =>
        /\ tile.hit
        /\ tile.side = AxisRayInto(pos, dir).side
        /\ REq(tile.length, AxisRayInto(pos, dir).length)

\* The ray from (1, -1/2) along +y: the x face is tested with 0 / 0, and the
\* min-y face is hit at 1/2.
C15_Witness ==
    /\ pc = "hit"
    /\ tile_args.shape.kind = "Box"
    /\ pos = Vec(I(1), Rat(-1, 2))
    /\ dir = Vec(I(0), I(1))
    /\ tile.hit
    /\ tile.side = 2
    /\ tile.length = Half

\* n colors, each different from the others and from the filler Color::Test.
SideColors(n) == [i \in 1..n |-> ColorSolid(I(i), I(0), I(0), I(1))]

\* C17: the side of a hit is below the side count of the shape, so the
\* surface of the WallHit, tile.colors[side], is the color supplied to
\* Tile::new for that side and never the filler.
C17_SideBelowSideCount ==
    (pc = "hit" /\ tile.hit) =>
        LET n == Sides(tile_args.shape)
            t == TileNew(tile_args.shape, SideColors(n), ColorTest, I(0), ColorTest, I(1))
        IN  /\ t.ok
            /\ tile.side >= 0 /\ tile.side < n
            /\ t.tile.colors[tile.side + 1] = SideColors(n)[tile.side + 1]
            /\ t.tile.colors[tile.side + 1] # ColorTest

\* A Line struck from the side that gives its second surface.
C17_Witness ==
    /\ pc = "hit"
    /\ tile.hit
    /\ tile_args.shape.kind = "Line"
    /\ tile.side = 1

----------------------------------------------------------------------------
(* Properties of the steps of Map::ray_cast                                *)

\* The cells the ray has left so far, in order: those of its FloorHits.
CellsLeft ==
    LET floors == SelectSeq(events, IsFloor)
    IN  [i \in 1..Len(floors) |-> floors[i].cell]

Adjacent(c1, c2) ==
    \/ c1.x = c2.x /\ (c1.y = c2.y + 1 \/ c1.y = c2.y - 1)
    \/ c1.y = c2.y /\ (c1.x = c2.x + 1 \/ c1.x = c2.x - 1)

\* No cell is visited twice, and each cell visited is a 4-neighbour of the
\* one before it.
C16_VisitedOnce ==
    LET cells == CellsLeft \o (IF pc = "loop" THEN <<map_pos>> ELSE <<>>)
    IN  /\ \A i, j \in 1..Len(cells) : i # j => cells[i] # cells[j]
        /\ \A i \in 1..(Len(cells) - 1) : Adjacent(cells[i], cells[i + 1])

\* A pass moves the current cell by one cell: along x when
\* side_dist.x < side_dist.y, along y otherwise (equality included).
C16_Step ==
    pc = "loop" =>
        LET sx == IF RLt(dir.x, I(0)) THEN -1 ELSE 1
            sy == IF RLt(dir.y, I(0)) THEN -1 ELSE 1
        IN  IF RLt(side_dist.x, side_dist.y)
            THEN map_pos' = [x |-> map_pos.x + sx, y |-> map_pos.y]
            ELSE map_pos' = [x |-> map_pos.x, y |-> map_pos.y + sy]

\* C16: each pass of the loop of ray_cast moves the current cell by exactly
\* one cell along exactly one axis, x when side_dist.x < side_dist.y and y
\* otherwise; the cells visited are 4-neighbours in turn and none is visited
\* twice.
C16_OneCellPerStep == []C16_VisitedOnce /\ [][C16_Step]_vars

\* The ray from (3/2, 3/2) along (1, 1) passes the corner (2, 2): it enters
\* the y-neighbour (1, 2), then the diagonal cell (2, 2).
C16_Witness ==
    /\ pos = Vec(Rat(3, 2), Rat(3, 2))
    /\ dir = Vec(I(1), I(1))
    /\ pc = "loop"
    /\ nsteps = 2
    /\ CellsLeft = << [x |-> 1, y |-> 1], [x |-> 1, y |-> 2] >>
    /\ map_pos = [x |-> 2, y |-> 2]

====
